---- MODULE Spec2Model ----
(***************************************************************************)
(* Model of finit's configuration parser, src/src/conf.c: the runlevel     *)
(* bitmask compiler, the rlimit setter, the static and dynamic directive   *)
(* interpreters and the reconciliation driver (conf_parse_config and       *)
(* conf_reload_dynamic).                                                   *)
(*                                                                         *)
(* C strings are sequences of one-character strings without their          *)
(* terminator; NUL stands for the terminator where the code reads it.      *)
(***************************************************************************)
EXTENDS Integers, Sequences, FiniteSets, TLC

VARIABLES
    hostname, network, runparts, sdown, console,  \* GlobalSettings strings
    cfglevel,                                     \* default runlevel
    runlevel,                                     \* current runlevel
    svcs, ttys,                                   \* the two registries
    limits,                                       \* process resource limits
    fs,                                           \* files the parser reads
    os,                                           \* which OS calls fail
    build,                                        \* build configuration
    op, ret, log, calls, applied, trace,          \* latest operation, observed
    events,                                       \* its marks, with their place among the calls
    streak,                                       \* passes since the files changed
    rl,                                           \* conf_parse_runlevels call
    cnd,                                          \* conf_parse_cond call
    rd                                            \* a read loop, step by step

globals == <<hostname, network, runparts, sdown, console, cfglevel, runlevel>>
registries == <<svcs, ttys>>
observed == <<op, ret, log, calls, applied, trace, events, streak>>
units == <<rl, cnd, rd>>
vars == <<globals, registries, limits, fs, os, build, observed, units>>

(***************************************************************************)
(* Characters and strings                                                  *)
(***************************************************************************)
NUL == "NUL"
\* A null pointer where a string is expected.
NULL == <<"NULL">>

\* The printable ASCII characters, in code order from 32.
Ascii ==
    << " ", "!", "\"", "#", "$", "%", "&", "'", "(", ")", "*", "+", ",", "-",
       ".", "/", "0", "1", "2", "3", "4", "5", "6", "7", "8", "9", ":", ";",
       "<", "=", ">", "?", "@", "A", "B", "C", "D", "E", "F", "G", "H", "I",
       "J", "K", "L", "M", "N", "O", "P", "Q", "R", "S", "T", "U", "V", "W",
       "X", "Y", "Z", "[", "\\", "]", "^", "_", "BACKQUOTE", "a", "b", "c", "d", "e",
       "f", "g", "h", "i", "j", "k", "l", "m", "n", "o", "p", "q", "r", "s",
       "t", "u", "v", "w", "x", "y", "z", "{", "|", "}", "~" >>

Chars == {Ascii[i] : i \in 1..Len(Ascii)} \cup {NUL, "\t", "\n"}

\* The character codes.
OrdTable ==
    [c \in Chars |->
        IF c = NUL THEN 0
        ELSE IF c = "\t" THEN 9
        ELSE IF c = "\n" THEN 10
        ELSE 31 + (CHOOSE i \in 1..Len(Ascii) : Ascii[i] = c)]

Ord(c) == OrdTable[c]

\* tolower() of the C locale.
LowerTable ==
    [c \in Chars |->
        IF OrdTable[c] >= OrdTable["A"] /\ OrdTable[c] <= OrdTable["Z"]
        THEN Ascii[OrdTable[c] - 31 + (OrdTable["a"] - OrdTable["A"])]
        ELSE c]

ToLower(c) == LowerTable[c]

\* s[i] of a C string, i counted from 0; the terminator sits at Len(s).
CharAt(s, i) == IF i + 1 <= Len(s) THEN s[i + 1] ELSE NUL

\* The C string starting at s + n.
Tail0(s, n) == IF n >= Len(s) THEN <<>> ELSE SubSeq(s, n + 1, Len(s))

\* strcmp(a, b) < 0, == 0: byte-wise comparison.
RECURSIVE StrLess(_, _)
StrLess(a, b) ==
    IF b = <<>> THEN FALSE
    ELSE IF a = <<>> THEN TRUE
    ELSE IF Ord(Head(a)) # Ord(Head(b)) THEN Ord(Head(a)) < Ord(Head(b))
    ELSE StrLess(Tail(a), Tail(b))

StrEq(a, b) == a = b

\* !strncasecmp(l, c, strlen(c))
RECURSIVE HasPrefixNoCase(_, _)
HasPrefixNoCase(l, c) ==
    IF c = <<>> THEN TRUE
    ELSE IF l = <<>> THEN FALSE
    ELSE ToLower(Head(l)) = ToLower(Head(c)) /\ HasPrefixNoCase(Tail(l), Tail(c))

\* MATCH_CMD(l, c, x): the test; x is then MatchRest(l, c).
MATCH_CMD(l, c) == HasPrefixNoCase(l, c)
MatchRest(l, c) == Tail0(l, Len(c))

(***************************************************************************)
(* conf_parse_runlevels                                                    *)
(***************************************************************************)
Pow2(n) == 2 ^ n
HasBit(mask, b) == (mask \div Pow2(b)) % 2 = 1
SETBIT(mask, b) == IF HasBit(mask, b) THEN mask ELSE mask + Pow2(b)
CLRBIT(mask, b) == IF HasBit(mask, b) THEN mask - Pow2(b) ELSE mask
\* 0x3FE, bits 1..9
NegBaseline == Pow2(10) - 2
MaskOf(levels) ==
    LET RECURSIVE Sum(_)
        Sum(S) == IF S = {} THEN 0
                  ELSE LET b == CHOOSE x \in S : TRUE IN Pow2(b) + Sum(S \ {b})
    IN Sum(levels)

\* The bytes at the address passed: the string, its terminator, and then
\* whatever the caller's memory holds after it (junk), ended by a zero byte.
Memory(str, junk) == str \o <<NUL>> \o junk \o <<NUL>>

\* A scan in which '!' switches to clearing without resetting the mask.
RECURSIVE RunlevelScanNoReset(_, _, _, _)
RunlevelScanNoReset(mem, i, not, bitmask) ==
    LET lvl == CharAt(mem, i) IN
    IF lvl = "]" \/ lvl = NUL THEN [mask |-> bitmask, reads |-> i]
    ELSE IF lvl = "!" THEN RunlevelScanNoReset(mem, i + 1, TRUE, bitmask)
    ELSE
        LET l0 == IF lvl = "s" \/ lvl = "S" THEN "0" ELSE lvl
            level == Ord(l0) - Ord("0")
        IN  IF level > 9 \/ level < 0
            THEN RunlevelScanNoReset(mem, i + 1, not, bitmask)
            ELSE RunlevelScanNoReset(mem, i + 1, not,
                     IF not THEN CLRBIT(bitmask, level) ELSE SETBIT(bitmask, level))

\* The scan loop. Returns the mask and the highest index read.
RECURSIVE RunlevelScan(_, _, _, _)
RunlevelScan(mem, i, not, bitmask) ==
    LET lvl == CharAt(mem, i) IN
    IF lvl = "]" \/ lvl = NUL THEN [mask |-> bitmask, reads |-> i]
    ELSE IF lvl = "!" THEN RunlevelScan(mem, i + 1, TRUE, NegBaseline)
    ELSE
        LET l0 == IF lvl = "s" \/ lvl = "S" THEN "0" ELSE lvl
            level == Ord(l0) - Ord("0")
        IN  IF level > 9 \/ level < 0
            THEN RunlevelScan(mem, i + 1, not, bitmask)
            ELSE RunlevelScan(mem, i + 1, not,
                     IF not THEN CLRBIT(bitmask, level) ELSE SETBIT(bitmask, level))

DefaultRunlevels == <<"[", "2", "3", "4", "]">>

\* conf_parse_runlevels(runlevels), the argument lying in memory before junk.
ConfParseRunlevels(runlevels, junk) ==
    LET mem == IF runlevels = NULL THEN Memory(DefaultRunlevels, <<>>)
               ELSE Memory(runlevels, junk)
    IN  RunlevelScan(mem, 1, FALSE, 0)

(***************************************************************************)
(* Bounds of the runlevel compiler's inputs                                *)
(***************************************************************************)
MaxRlLen == 2

RlAlphabet == {"[", "]", "!", "0", "1", "6", "S", "x"}

RECURSIVE StringsUpTo(_, _)
StringsUpTo(alphabet, n) ==
    IF n = 0 THEN {<<>>}
    ELSE LET shorter == StringsUpTo(alphabet, n - 1)
         IN  shorter \cup {Append(s, c) : s \in shorter, c \in alphabet}

RlReference ==
    { <<"[", "2", "3", "4", "]">>, <<"[", "S", "]">>, <<"[", "s", "]">>,
      <<"[", "!", "0", "1", "6", "]">>, <<"[", "2", "!", "3", "S">>,
      <<"2", "3", "4">> }

RlInputs == {NULL} \cup RlReference \cup StringsUpTo(RlAlphabet, MaxRlLen)

\* What may follow the argument's terminator in the caller's buffer.
RlJunk == { <<>>, <<"2", "3", "4", "]">>, <<"!", "S", "]">> }

RlIdle == [pc |-> "idle", arg |-> NULL, junk |-> <<>>, mask |-> 0, reads |-> 0]

(***************************************************************************)
(* Tokens and numbers                                                      *)
(***************************************************************************)
IsBlank(c) == c = " " \/ c = "\t"
IsDigit(c) == Ord(c) >= Ord("0") /\ Ord(c) <= Ord("9")

\* The successive results of strtok(line, " \t"), strtok(NULL, " \t"), ...
RECURSIVE Strtok(_, _)
Strtok(line, cur) ==
    IF line = <<>> THEN (IF cur = <<>> THEN <<>> ELSE <<cur>>)
    ELSE IF IsBlank(Head(line))
         THEN (IF cur = <<>> THEN <<>> ELSE <<cur>>) \o Strtok(Tail(line), <<>>)
         ELSE Strtok(Tail(line), Append(cur, Head(line)))

\* The i-th token, NULL when strtok() has run out of tokens.
Token(toks, i) == IF i <= Len(toks) THEN toks[i] ELSE NULL

\* Numbers beyond 32 bits are kept as decimal digit strings without leading
\* zeros; the resource limit values are of this form.
RECURSIVE Canonical(_)
Canonical(digits) ==
    IF Len(digits) > 1 /\ Head(digits) = "0" THEN Canonical(Tail(digits))
    ELSE digits

DecLeq(a, b) ==
    \/ Len(a) < Len(b)
    \/ Len(a) = Len(b) /\ ~StrLess(b, a)

AllDigits(s) == s # <<>> /\ \A i \in 1..Len(s) : IsDigit(s[i])

\* strtonum(numstr, minval, maxval, &err) for minval >= 0: a decimal number
\* with an optional sign and nothing after it, within [minval, maxval].
\* err is set for an invalid, too small or too large number; the value is
\* then 0. err is "" when the number is good.
Strtonum(numstr, minval, maxval) ==
    LET signed == numstr # <<>> /\ (Head(numstr) = "-" \/ Head(numstr) = "+")
        body   == IF signed THEN Tail(numstr) ELSE numstr
        val    == Canonical(body)
        neg    == signed /\ Head(numstr) = "-" /\ val # <<"0">>
    IN  IF ~AllDigits(body) THEN [err |-> "invalid", val |-> <<"0">>]
        ELSE IF neg \/ ~DecLeq(minval, val) THEN [err |-> "too small", val |-> <<"0">>]
        ELSE IF ~DecLeq(val, maxval) THEN [err |-> "too large", val |-> <<"0">>]
        ELSE [err |-> "", val |-> val]

(***************************************************************************)
(* conf_parse_rlimit                                                       *)
(***************************************************************************)
RLIM_INFINITY == <<"RLIM_INFINITY">>

\* (long long)2 << 31
RlimCeiling == <<"4", "2", "9", "4", "9", "6", "7", "2", "9", "6">>

rlimit_names ==
    << [name |-> <<"a", "s">>,                          val |-> "RLIMIT_AS"],
       [name |-> <<"c", "o", "r", "e">>,                val |-> "RLIMIT_CORE"],
       [name |-> <<"c", "p", "u">>,                     val |-> "RLIMIT_CPU"],
       [name |-> <<"d", "a", "t", "a">>,                val |-> "RLIMIT_DATA"],
       [name |-> <<"f", "s", "i", "z", "e">>,           val |-> "RLIMIT_FSIZE"],
       [name |-> <<"l", "o", "c", "k", "s">>,           val |-> "RLIMIT_LOCKS"],
       [name |-> <<"m", "e", "m", "l", "o", "c", "k">>, val |-> "RLIMIT_MEMLOCK"],
       [name |-> <<"m", "s", "g", "q", "u", "e", "u", "e">>, val |-> "RLIMIT_MSGQUEUE"],
       [name |-> <<"n", "i", "c", "e">>,                val |-> "RLIMIT_NICE"],
       [name |-> <<"n", "o", "f", "i", "l", "e">>,      val |-> "RLIMIT_NOFILE"],
       [name |-> <<"n", "p", "r", "o", "c">>,           val |-> "RLIMIT_NPROC"],
       [name |-> <<"r", "s", "s">>,                     val |-> "RLIMIT_RSS"],
       [name |-> <<"r", "t", "p", "r", "i", "o">>,      val |-> "RLIMIT_RTPRIO"],
       [name |-> <<"r", "t", "t", "i", "m", "e">>,      val |-> "RLIMIT_RTTIME"],
       [name |-> <<"s", "i", "g", "p", "e", "n", "d", "i", "n", "g">>, val |-> "RLIMIT_SIGPENDING"],
       [name |-> <<"s", "t", "a", "c", "k">>,           val |-> "RLIMIT_STACK"] >>

Resources == {rlimit_names[i].val : i \in 1..Len(rlimit_names)}

\* int resource = -1
NoResource == "-1"

\* The name lookup loop: the resource of the last matching entry, -1 if none.
RECURSIVE LookupResource(_, _, _)
LookupResource(tok, i, resource) ==
    IF i > Len(rlimit_names) THEN resource
    ELSE LookupResource(tok, i + 1,
             IF StrEq(tok, rlimit_names[i].name) THEN rlimit_names[i].val
             ELSE resource)

\* rlim_cur <= rlim_max, RLIM_INFINITY being the largest value.
RlimLeq(a, b) == b = RLIM_INFINITY \/ (a # RLIM_INFINITY /\ DecLeq(a, b))

Warn(s, msg) == [s EXCEPT !.log = Append(@, [level |-> "warning", msg |-> msg])]
Err(s, msg) == [s EXCEPT !.log = Append(@, [level |-> "error", msg |-> msg])]

\* setrlimit(resource, &rlim): the kernel refuses a soft limit above the
\* hard one, and may refuse for reasons of its own (os.setrlimit); a refused
\* call changes nothing.
SetrlimitFails(rlim) == os.setrlimit \/ ~RlimLeq(rlim.cur, rlim.max)

\* A write through both halves at once.
SetBothHalves(rlim, set, new) == [cur |-> new, max |-> new]

\* *set = new
SetHalf(rlim, set, new) == [rlim EXCEPT ![set] = new]

\* conf_parse_rlimit without the check of strtonum's err.
ConfParseRlimitUnchecked(line, s) ==
    LET toks == Strtok(line, <<>>)
        sel  == Token(toks, 1)
        nm   == Token(toks, 2)
        vt   == Token(toks, 3)
        set  == IF sel = <<"s", "o", "f", "t">> THEN "cur"
                ELSE IF sel = <<"h", "a", "r", "d">> THEN "max"
                ELSE ""
        resource == IF nm = NULL THEN NoResource ELSE LookupResource(nm, 1, NoResource)
        num  == IF vt = NULL THEN [err |-> "missing", val |-> <<"0">>]
                ELSE IF vt = <<"i", "n", "f", "i", "n", "i", "t", "y">>
                     THEN [err |-> "", val |-> RLIM_INFINITY]
                     ELSE Strtonum(vt, <<"0">>, RlimCeiling)
        fail == Warn(s, "rlimit: Failed setting rlimit")
    IN  IF set = "" \/ nm = NULL THEN Warn(s, "rlimit: parse error")
        ELSE IF resource = NoResource THEN fail
        ELSE IF os.getrlimit THEN fail
        ELSE LET rlim == SetHalf(s.limits[resource], set, num.val)
             IN  IF SetrlimitFails(rlim) THEN fail
                 ELSE [s EXCEPT !.limits[resource] = rlim]

\* conf_parse_rlimit(line) in program state s.
ConfParseRlimit(line, s) ==
    LET toks == Strtok(line, <<>>)
        sel  == Token(toks, 1)
        nm   == Token(toks, 2)
        vt   == Token(toks, 3)
        set  == IF sel = <<"s", "o", "f", "t">> THEN "cur"
                ELSE IF sel = <<"h", "a", "r", "d">> THEN "max"
                ELSE ""
        resource == IF nm = NULL THEN NoResource ELSE LookupResource(nm, 1, NoResource)
        num  == IF vt = NULL THEN [err |-> "missing", val |-> <<"0">>]
                ELSE IF vt = <<"i", "n", "f", "i", "n", "i", "t", "y">>
                     THEN [err |-> "", val |-> RLIM_INFINITY]
                     ELSE Strtonum(vt, <<"0">>, RlimCeiling)
        fail == Warn(s, "rlimit: Failed setting rlimit")
    IN  IF set = "" \/ nm = NULL THEN Warn(s, "rlimit: parse error")
        ELSE IF resource = NoResource THEN fail
        ELSE IF num.err # "" THEN fail
        ELSE IF os.getrlimit THEN fail
        ELSE LET rlim == SetHalf(s.limits[resource], set, num.val)
             IN  IF SetrlimitFails(rlim) THEN fail
                 ELSE [s EXCEPT !.limits[resource] = rlim]

(***************************************************************************)
(* conf_parse_cond                                                         *)
(***************************************************************************)
\* sizeof(svc->cond): the capacity of a service's condition field.
COND_SIZE == 3

\* strlcpy(dst, src, size): at most size - 1 characters are copied.
Strlcpy(src, size) ==
    IF Len(src) <= size - 1 THEN src ELSE SubSeq(src, 1, size - 1)

\* while (ptr[i] != '>' && ptr[i] != 0) i++;
RECURSIVE CondScan(_, _)
CondScan(ptr, i) ==
    IF CharAt(ptr, i) = ">" \/ CharAt(ptr, i) = NUL THEN i
    ELSE CondScan(ptr, i + 1)

\* A service descriptor as conf_parse_cond sees it: svc_is_daemon(svc), the
\* sighup flag and the condition field; isnull for a NULL pointer.
FreshSvcs ==
    {[isnull |-> n, daemon |-> d, sighup |-> 0, cond |-> <<>>, log |-> <<>>] :
        n, d \in BOOLEAN}

\* strlcpy(svc->cond, ptr, sizeof(svc->cond))
CondStore(text, size) == Strlcpy(text, size)

\* conf_parse_cond(svc, cond): the descriptor it leaves, with what it logged.
ConfParseCond(svc, cond) ==
    IF svc.isnull THEN Err(svc, "Invalid service pointer")
    ELSE LET s1 == IF svc.daemon THEN [svc EXCEPT !.sighup = 1] ELSE svc IN
         IF cond = NULL THEN s1
         ELSE LET neg == CharAt(cond, 0) = "!"
                  s2 == IF neg THEN [s1 EXCEPT !.sighup = 0] ELSE s1
                  ptr == IF neg THEN Tail0(cond, 1) ELSE cond
                  i == CondScan(ptr, 0)
                  text == SubSeq(ptr, 1, i)
              IN  IF i >= COND_SIZE
                  THEN Warn(s2, "Too long event list in declaration")
                  ELSE [s2 EXCEPT !.cond = CondStore(text, COND_SIZE)]

\* The arguments tried: every string over these characters up to the length.
MaxCondLen == 4
CondAlphabet == {"!", ">", "a", "b"}
CondInputs == StringsUpTo(CondAlphabet, MaxCondLen) \cup {NULL}

CondIdle ==
    [pc |-> "idle", arg |-> NULL,
     svc |-> [isnull |-> FALSE, daemon |-> FALSE, sighup |-> 0, cond |-> <<>>, log |-> <<>>]]

(***************************************************************************)
(* Program state of one operation                                          *)
(***************************************************************************)
\* parse_conf(file) and parse_dynamic(line, NULL): no modification time.
NoMtime == 0

\* The program's state at the start of an operation, with the observation
\* of the operation (log, calls, ...) empty. cur is the file and line the
\* reader is at, rc the value the innermost call returned.
State ==
    [hostname |-> hostname, network |-> network, runparts |-> runparts,
     sdown |-> sdown, console |-> console, cfglevel |-> cfglevel,
     runlevel |-> runlevel, svcs |-> svcs, ttys |-> ttys, limits |-> limits,
     log |-> <<>>, calls |-> <<>>, applied |-> <<>>, trace |-> <<>>, events |-> <<>>,
     cur |-> [file |-> <<>>, line |-> 0], rc |-> 0]

\* strip_line(): skips leading blanks and cuts the line at a '#'.
RECURSIVE SkipBlanks(_)
SkipBlanks(line) ==
    IF line # <<>> /\ IsBlank(Head(line)) THEN SkipBlanks(Tail(line)) ELSE line

RECURSIVE CutAt(_, _)
CutAt(line, c) ==
    IF line = <<>> \/ Head(line) = c THEN <<>>
    ELSE <<Head(line)>> \o CutAt(Tail(line), c)

StripLine(line) == CutAt(SkipBlanks(line), "#")

\* run_interactive(cmd, ...): the command runner; the command is recorded.
RunInteractive(s, cmd) ==
    [s EXCEPT !.calls = Append(@, [fn |-> "run_interactive", type |-> "",
                                   arg |-> cmd, mtime |-> NoMtime, at |-> s.cur])]

(***************************************************************************)
(* The registries (service.h, tty.h)                                       *)
(***************************************************************************)
\* An entry is registered dynamically when it came with a modification time.
IsDynamic(e) == e.mtime # NoMtime

\* svc_mark_dynamic(): every dynamic service becomes pending-removal.
SvcMarkDynamic(s) ==
    [s EXCEPT !.svcs = [i \in DOMAIN @ |->
                  IF IsDynamic(@[i]) THEN [@[i] EXCEPT !.dirty = TRUE] ELSE @[i]],
              !.events = Append(@, [fn |-> "svc_mark_dynamic", calls |-> Len(s.calls)])]

\* tty_mark(): every dynamic tty becomes pending-removal.
TtyMark(s) ==
    [s EXCEPT !.ttys = [i \in DOMAIN @ |->
                  IF IsDynamic(@[i]) THEN [@[i] EXCEPT !.dirty = TRUE] ELSE @[i]],
              !.events = Append(@, [fn |-> "tty_mark", calls |-> Len(s.calls)])]

\* The index of the entry with this identity, 0 if there is none.
Find(reg, id) ==
    IF \E i \in DOMAIN reg : reg[i].id = id
    THEN CHOOSE i \in DOMAIN reg : reg[i].id = id
    ELSE 0

\* register/refresh: an entry of the same identity is refreshed in place
\* (un-marked, modification time updated), otherwise a new entry is added.
Refresh(reg, id, type, mtime) ==
    LET i == Find(reg, id) IN
    IF i # 0 THEN [reg EXCEPT ![i] = [@ EXCEPT !.type = type, !.mtime = mtime,
                                               !.dirty = FALSE]]
    ELSE Append(reg, [id |-> id, type |-> type, mtime |-> mtime, dirty |-> FALSE])

\* service_register(type, line, mtime)
ServiceRegister(type, line, mtime, s) ==
    [s EXCEPT !.svcs = Refresh(@, line, type, mtime),
              !.calls = Append(@, [fn |-> "service_register", type |-> type,
                                   arg |-> line, mtime |-> mtime, at |-> s.cur])]

\* tty_register(line, mtime)
TtyRegister(line, mtime, s) ==
    [s EXCEPT !.ttys = Refresh(@, line, "tty", mtime),
              !.calls = Append(@, [fn |-> "tty_register", type |-> "tty",
                                   arg |-> line, mtime |-> mtime, at |-> s.cur])]

\* The registries' sweep: every entry still pending-removal is unregistered.
RECURSIVE Sweep(_)
Sweep(reg) ==
    IF reg = <<>> THEN <<>>
    ELSE (IF Head(reg).dirty THEN <<>> ELSE <<Head(reg)>>) \o Sweep(Tail(reg))

\* set_hostname(&hostname): the hostname applier.
SetHostname(s) == [s EXCEPT !.applied = Append(@, s.hostname)]

(***************************************************************************)
(* parse_dynamic                                                           *)
(***************************************************************************)
Traced(s, interp) ==
    [s EXCEPT !.trace = Append(@, [interp |-> interp, at |-> s.cur])]

\* An inetd directive registered whatever the build.
InetdDirectiveAlways(x, mtime, s) == ServiceRegister("SVC_TYPE_INETD", x, mtime, s)

\* #ifdef INETD_ENABLED
InetdDirective(x, mtime, s) ==
    IF build.inetd THEN ServiceRegister("SVC_TYPE_INETD", x, mtime, s)
    ELSE Err(s, "Finit built with inetd support disabled")

\* The rlimit directive of parse_dynamic.
RlimitDirective(x, s) == ConfParseRlimit(x, s)

ParseDynamic(line, mtime, s0) ==
    LET s == Traced(s0, "dynamic") IN
    IF MATCH_CMD(line, <<"#">>) THEN s
    ELSE IF MATCH_CMD(line, <<"m", "o", "d", "u", "l", "e", " ">>) THEN
        IF s.runlevel # 0 THEN s
        ELSE RunInteractive(s, <<"m", "o", "d", "p", "r", "o", "b", "e", " ">> \o StripLine(MatchRest(line, <<"m", "o", "d", "u", "l", "e", " ">>)))
    ELSE IF MATCH_CMD(line, <<"s", "e", "r", "v", "i", "c", "e", " ">>) THEN
        ServiceRegister("SVC_TYPE_SERVICE", MatchRest(line, <<"s", "e", "r", "v", "i", "c", "e", " ">>), mtime, s)
    ELSE IF MATCH_CMD(line, <<"t", "a", "s", "k", " ">>) THEN
        ServiceRegister("SVC_TYPE_TASK", MatchRest(line, <<"t", "a", "s", "k", " ">>), mtime, s)
    ELSE IF MATCH_CMD(line, <<"r", "u", "n", " ">>) THEN
        ServiceRegister("SVC_TYPE_RUN", MatchRest(line, <<"r", "u", "n", " ">>), mtime, s)
    ELSE IF MATCH_CMD(line, <<"i", "n", "e", "t", "d", " ">>) THEN
        InetdDirective(MatchRest(line, <<"i", "n", "e", "t", "d", " ">>), mtime, s)
    ELSE IF MATCH_CMD(line, <<"r", "l", "i", "m", "i", "t", " ">>) THEN
        RlimitDirective(MatchRest(line, <<"r", "l", "i", "m", "i", "t", " ">>), s)
    ELSE IF MATCH_CMD(line, <<"c", "o", "n", "s", "o", "l", "e", " ">>) THEN
        [s EXCEPT !.console = StripLine(MatchRest(line, <<"c", "o", "n", "s", "o", "l", "e", " ">>))]
    ELSE IF MATCH_CMD(line, <<"t", "t", "y", " ">>) THEN
        TtyRegister(StripLine(MatchRest(line, <<"t", "t", "y", " ">>)), mtime, s)
    ELSE s

(***************************************************************************)
(* Reading a file line by line                                             *)
(***************************************************************************)
\* The size of the line buffer.
LINE_SIZE == 40

\* The bytes of a file whose lines are these.
RECURSIVE Stream(_)
Stream(lines) ==
    IF lines = <<>> THEN <<>>
    ELSE Head(lines) \o <<"\n">> \o Stream(Tail(lines))

\* How many bytes fgets(line, size, fp) takes from the stream: up to and
\* including the first newline, at most size - 1.
RECURSIVE FgetsLen(_, _, _)
FgetsLen(stream, size, n) ==
    IF n >= size - 1 \/ n >= Len(stream) THEN n
    ELSE IF stream[n + 1] = "\n" THEN n + 1
    ELSE FgetsLen(stream, size, n + 1)

\* chomp(): drops the trailing newlines.
RECURSIVE Chomp(_)
Chomp(str) ==
    IF str # <<>> /\ str[Len(str)] = "\n" THEN Chomp(SubSeq(str, 1, Len(str) - 1))
    ELSE str

\* tabstospaces()
TabsToSpaces(line) == [i \in DOMAIN line |-> IF line[i] = "\t" THEN " " ELSE line[i]]

\* The normalized lines the read loop dispatches, in order:
\* while (!feof(fp)) { if (!fgets(...)) continue; chomp; tabstospaces; ... }
RECURSIVE ReadLines(_)
ReadLines(stream) ==
    IF stream = <<>> THEN <<>>
    ELSE LET n == FgetsLen(stream, LINE_SIZE, 0)
         IN  <<TabsToSpaces(Chomp(SubSeq(stream, 1, n)))>>
             \o ReadLines(Tail0(stream, n))

(***************************************************************************)
(* The read loop of parse_conf_dynamic, one iteration at a time            *)
(***************************************************************************)
RECURSIVE Repeat(_, _)
Repeat(c, n) == IF n <= 0 THEN <<>> ELSE <<c>> \o Repeat(c, n - 1)

\* A comment line that does not fit the line buffer: '#', filler up to the
\* buffer's last place, then more text.
LongLine == <<"#">> \o Repeat("x", LINE_SIZE - 2) \o <<"s", "e", "r", "v", "i", "c", "e", " ", "R">>

\* The files read. opens: fopen() succeeds; failat: the number of reads
\* that succeed before every further read fails with an error (a directory
\* behind a symlink fails from the first read on), -1 if none ever fails.
RdFiles ==
    [ two     |-> [stream |-> Stream(<<<<"s", "e", "r", "v", "i", "c", "e", " ", "A">>, <<"t", "t", "y", "\t", "T">>>>), opens |-> TRUE, failat |-> -1],
      empty   |-> [stream |-> <<>>, opens |-> TRUE, failat |-> -1],
      nonl    |-> [stream |-> <<"t", "a", "s", "k", " ", "Z">>, opens |-> TRUE, failat |-> -1],
      blank   |-> [stream |-> Stream(<<<<>>, <<"r", "u", "n", " ", "Q">>>>), opens |-> TRUE, failat |-> -1],
      long    |-> [stream |-> Stream(<<LongLine, <<"t", "a", "s", "k", " ", "L">>>>), opens |-> TRUE, failat |-> -1],
      dirlink |-> [stream |-> <<>>, opens |-> TRUE, failat |-> 0],
      eio     |-> [stream |-> Stream(<<<<"s", "e", "r", "v", "i", "c", "e", " ", "A">>, <<"t", "t", "y", " ", "T">>>>), opens |-> TRUE, failat |-> 1],
      noopen  |-> [stream |-> Stream(<<<<"s", "e", "r", "v", "i", "c", "e", " ", "U">>>>), opens |-> FALSE, failat |-> -1] ]

RdPath(f) == <<"/", "e", "t", "c", "/", "f", "i", "n", "i", "t", ".", "d", "/">> \o <<f>> \o <<".", "c", "o", "n", "f">>

RdIdle ==
    [pc |-> "idle", file |-> "empty", rest |-> <<>>, eof |-> FALSE, err |-> FALSE,
     reads |-> 0, tick |-> 0, out |-> <<>>]

RdCalls ==
    {[pc |-> "call", file |-> f, rest |-> RdFiles[f].stream, eof |-> FALSE,
      err |-> FALSE, reads |-> 0, tick |-> 0, out |-> <<>>] : f \in DOMAIN RdFiles}

\* The program's state in the middle of an operation: what the operation
\* has logged and called so far is kept.
Ongoing ==
    [State EXCEPT !.log = log, !.calls = calls, !.applied = applied,
                  !.trace = trace, !.events = events]

\* fgets() reaches the end of the input while reading this line.
HitsEnd(rest, n) == n = Len(rest) /\ n < LINE_SIZE - 1 /\ rest[n] # "\n"

(***************************************************************************)
(* The files                                                               *)
(***************************************************************************)
FINIT_CONF == <<"/", "e", "t", "c", "/", "f", "i", "n", "i", "t", ".", "c", "o", "n", "f">>
rcsd == <<"/", "e", "t", "c", "/", "f", "i", "n", "i", "t", ".", "d">>
ExtraConf == <<"/", "e", "t", "c", "/", "e", "x", "t", "r", "a", ".", "c", "o", "n", "f">>
OuterConf == <<"/", "e", "t", "c", "/", "o", "u", "t", "e", "r", ".", "c", "o", "n", "f">>
DEFHOST == <<"n", "o", "n", "a", "m", "e">>

\* The lines of the primary configuration file and of the file it includes.
ConfLines ==
    << <<"#", " ", "f", "i", "n", "i", "t", ".", "c", "o", "n", "f">>,
       <<"h", "o", "s", "t", " ", "b", "o", "x">>,
       <<"r", "u", "n", "l", "e", "v", "e", "l", " ", "3">>,
       <<"n", "e", "t", "w", "o", "r", "k", " ", "i", "f", "u", "p">>,
       <<"r", "u", "n", "p", "a", "r", "t", "s", " ", "/", "e", "t", "c", "/", "r", "c">>,
       <<"s", "h", "u", "t", "d", "o", "w", "n", " ", "h", "a", "l", "t">>,
       <<"m", "k", "n", "o", "d", " ", "/", "d", "e", "v", "/", "n", "u", "l", "l", " ", "c", " ", "1", " ", "3">>,
       <<"m", "o", "d", "u", "l", "e", " ", "m", "0">>,
       <<"s", "e", "r", "v", "i", "c", "e", " ", "P">>,
       <<"t", "t", "y", " ", " ", "T", "0">>,
       <<"c", "o", "n", "s", "o", "l", "e", " ", "/", "d", "e", "v", "/", "c", "0">>,
       <<"i", "n", "c", "l", "u", "d", "e", " ", "/", "e", "t", "c", "/", "e", "x", "t", "r", "a", ".", "c", "o", "n", "f">>,
       <<"r", "l", "i", "m", "i", "t", " ", "s", "o", "f", "t", " ", "c", "o", "r", "e", " ", "0">> >>

ExtraLines ==
    << <<"t", "a", "s", "k", " ", "E">>,
       <<"H", "o", "s", "t", " ", "i", "n", "n", "e", "r">> >>

\* A file that includes the other one between two lines of its own.
OuterLines ==
    << <<"h", "o", "s", "t", " ", "o", "u", "t", "e", "r">>,
       <<"i", "n", "c", "l", "u", "d", "e", " ", "/", "e", "t", "c", "/", "e", "x", "t", "r", "a", ".", "c", "o", "n", "f">>,
       <<"n", "e", "t", "w", "o", "r", "k", " ", "l", "a", "t", "e">> >>

\* The entries the drop-in directory can hold. kind is what lstat() reports;
\* opens tells whether fopen() of the entry succeeds.
DropIns ==
    [ dot    |-> [name |-> <<".">>, kind |-> "dir", opens |-> TRUE, lines |-> <<>>],
      dotdot |-> [name |-> <<".", ".">>, kind |-> "dir", opens |-> TRUE, lines |-> <<>>],
      x      |-> [name |-> <<"1", "0", "-", "x", ".", "c", "o", "n", "f">>, kind |-> "reg", opens |-> TRUE,
                  lines |-> << <<"s", "e", "r", "v", "i", "c", "e", " ", "A">>,
                               <<"h", "o", "s", "t", " ", "e", "v", "i", "l">>,
                               <<"r", "u", "n", "l", "e", "v", "e", "l", " ", "9">>,
                               <<"t", "t", "y", " ", "T", "1">>,
                               <<"n", "e", "t", "w", "o", "r", "k", " ", "n">>,
                               <<"r", "u", "n", "p", "a", "r", "t", "s", " ", "r">>,
                               <<"s", "h", "u", "t", "d", "o", "w", "n", " ", "s">>,
                               <<"m", "k", "n", "o", "d", " ", "n">>,
                               <<"i", "n", "c", "l", "u", "d", "e", " ", "/", "e", "t", "c", "/", "e", "x", "t", "r", "a", ".", "c", "o", "n", "f">> >>],
      y      |-> [name |-> <<"2", "-", "y", ".", "c", "o", "n", "f">>, kind |-> "reg", opens |-> TRUE,
                  lines |-> << <<"s", "e", "r", "v", "i", "c", "e", " ", "B">>,
                               <<"r", "l", "i", "m", "i", "t", "\t", "s", "o", "f", "t", " ", "n", "o", "f", "i", "l", "e", " ", "5", "1", "2">>,
                               <<"c", "o", "n", "s", "o", "l", "e", " ", "/", "d", "e", "v", "/", "c", "2">>,
                               <<"m", "o", "d", "u", "l", "e", " ", "m", "1">>,
                               <<"r", "u", "n", " ", "A", "2">> >>],
      z      |-> [name |-> <<"3", "-", "z", ".", "c", "o", "n", "f">>, kind |-> "lnk", opens |-> TRUE,
                  lines |-> << <<"t", "a", "s", "k", " ", "C">> >>],
      u      |-> [name |-> <<"4", "-", "u", ".", "c", "o", "n", "f">>, kind |-> "reg", opens |-> FALSE,
                  lines |-> << <<"s", "e", "r", "v", "i", "c", "e", " ", "U">> >>],
      p      |-> [name |-> <<"5", "-", "p", ".", "c", "o", "n", "f">>, kind |-> "fifo", opens |-> TRUE,
                  lines |-> << <<"s", "e", "r", "v", "i", "c", "e", " ", "F">> >>],
      sub    |-> [name |-> <<"s", "u", "b", ".", "c", "o", "n", "f">>, kind |-> "dir", opens |-> TRUE, lines |-> <<>>],
      notes  |-> [name |-> <<"n", "o", "t", "e", "s", ".", "t", "x", "t">>, kind |-> "reg", opens |-> TRUE,
                  lines |-> << <<"s", "e", "r", "v", "i", "c", "e", " ", "N">> >>] ]

DropKeys == DOMAIN DropIns
\* The entries that come and go; the others are always there.
Toggled == {"x", "y"}
\* The entries whose modification time changes.
Touched == {"x"}

\* The largest modification time.
MaxMtime == 2

Present(k) == k \notin Toggled \/ k \in fs.present
MtimeOf(k) == IF k \in Touched THEN fs.mtime[k] ELSE 1

DropPath(k) == rcsd \o <<"/">> \o DropIns[k].name

\* The daemon's working directory: a path that does not start with '/' is
\* looked up from there.
Cwd == <<"/">>
Resolve(path) == IF path # <<>> /\ Head(path) = "/" THEN path ELSE Cwd \o path

\* fexist(path)
Fexist(path) ==
    LET abs == Resolve(path) IN
    \/ abs = FINIT_CONF /\ fs.conf
    \/ abs = ExtraConf /\ fs.extra
    \/ abs = OuterConf /\ fs.extra
    \/ \E k \in DropKeys : abs = DropPath(k) /\ Present(k)

\* fopen(path, "r"): NULL, or the bytes of the file.
Fopen(path) ==
    LET abs == Resolve(path) IN
    IF abs = FINIT_CONF /\ fs.conf THEN Stream(ConfLines)
    ELSE IF abs = ExtraConf /\ fs.extra THEN Stream(ExtraLines)
    ELSE IF abs = OuterConf /\ fs.extra THEN Stream(OuterLines)
    ELSE IF \E k \in DropKeys : abs = DropPath(k) /\ Present(k) /\ DropIns[k].opens
              /\ ~(DropIns[k].kind = "lnk" /\ fs.dangling)
         THEN Stream(DropIns[CHOOSE k \in DropKeys : abs = DropPath(k)].lines)
    ELSE NULL

(***************************************************************************)
(* parse_static and parse_conf                                             *)
(***************************************************************************)
\* RUNLEVEL, the configured default runlevel.
RUNLEVEL == 2

RECURSIVE DecToInt(_, _)
DecToInt(digits, acc) ==
    IF digits = <<>> THEN acc
    ELSE DecToInt(Tail(digits), 10 * acc + (Ord(Head(digits)) - Ord("0")))

\* The runlevel directive without its range check.
RunlevelDirectiveUnchecked(token) ==
    LET num == Strtonum(token, <<"1">>, <<"9">>)
    IN  IF num.err # "" THEN RUNLEVEL ELSE DecToInt(num.val, 0)

\* The runlevel directive of parse_static.
RunlevelDirective(token) ==
    LET num == Strtonum(token, <<"1">>, <<"9">>)
        lvl == IF num.err # "" THEN RUNLEVEL ELSE DecToInt(num.val, 0)
    IN  IF lvl < 1 \/ lvl > 9 \/ lvl = 6 THEN 2 ELSE lvl

RECURSIVE ParseStatic(_, _)
RECURSIVE ParseConfLines(_, _, _, _)
RECURSIVE ParseConf(_, _)

\* parse_conf(file): rc is 1 when the file cannot be opened.
ParseConf(file, s) ==
    LET fp == Fopen(file) IN
    IF fp = NULL THEN [s EXCEPT !.rc = 1]
    ELSE [ParseConfLines(file, ReadLines(fp), 1, s) EXCEPT !.rc = 0, !.cur = s.cur]

ParseStatic(line, s0) ==
    LET s == Traced(s0, "static") IN
    IF MATCH_CMD(line, <<"h", "o", "s", "t", " ">>) THEN
        [s EXCEPT !.hostname = StripLine(MatchRest(line, <<"h", "o", "s", "t", " ">>))]
    ELSE IF MATCH_CMD(line, <<"m", "k", "n", "o", "d", " ">>) THEN
        RunInteractive(s, <<"m", "k", "n", "o", "d", " ">> \o StripLine(MatchRest(line, <<"m", "k", "n", "o", "d", " ">>)))
    ELSE IF MATCH_CMD(line, <<"n", "e", "t", "w", "o", "r", "k", " ">>) THEN
        [s EXCEPT !.network = StripLine(MatchRest(line, <<"n", "e", "t", "w", "o", "r", "k", " ">>))]
    ELSE IF MATCH_CMD(line, <<"r", "u", "n", "p", "a", "r", "t", "s", " ">>) THEN
        [s EXCEPT !.runparts = StripLine(MatchRest(line, <<"r", "u", "n", "p", "a", "r", "t", "s", " ">>))]
    ELSE IF MATCH_CMD(line, <<"i", "n", "c", "l", "u", "d", "e", " ">>) THEN
        LET file == StripLine(MatchRest(line, <<"i", "n", "c", "l", "u", "d", "e", " ">>)) IN
        IF ~Fexist(file) THEN Err(s, "Cannot find include file")
        ELSE [ParseConf(file, s) EXCEPT !.rc = s.rc]
    ELSE IF MATCH_CMD(line, <<"s", "h", "u", "t", "d", "o", "w", "n", " ">>) THEN
        [s EXCEPT !.sdown = StripLine(MatchRest(line, <<"s", "h", "u", "t", "d", "o", "w", "n", " ">>))]
    ELSE IF MATCH_CMD(line, <<"r", "u", "n", "l", "e", "v", "e", "l", " ">>) THEN
        [s EXCEPT !.cfglevel = RunlevelDirective(StripLine(MatchRest(line, <<"r", "u", "n", "l", "e", "v", "e", "l", " ">>)))]
    ELSE s

\* One line of the primary file or of an included file:
\* parse_static(line); parse_dynamic(line, NULL);
BothInterpreters(line, s) == ParseDynamic(line, NoMtime, ParseStatic(line, s))

ParseConfLines(file, lines, i, s) ==
    IF i > Len(lines) THEN s
    ELSE LET t == BothInterpreters(lines[i], [s EXCEPT !.cur = [file |-> file, line |-> i]])
         IN  IF t.rc = t.rc THEN ParseConfLines(file, lines, i + 1, t) ELSE t

(***************************************************************************)
(* parse_conf_dynamic                                                      *)
(***************************************************************************)
\* A drop-in line given to both interpreters.
DropInLineStatic(line, mtime, s) == ParseDynamic(line, mtime, ParseStatic(line, s))

\* One line of a drop-in file: parse_dynamic(line, mtime);
DropInLine(line, mtime, s) == ParseDynamic(line, mtime, s)

RECURSIVE ParseDynamicLines(_, _, _, _, _)
ParseDynamicLines(file, lines, i, mtime, s) ==
    IF i > Len(lines) THEN s
    ELSE LET t == DropInLine(lines[i], mtime, [s EXCEPT !.cur = [file |-> file, line |-> i]])
         IN  IF t.rc = t.rc THEN ParseDynamicLines(file, lines, i + 1, mtime, t) ELSE t

ParseConfDynamic(file, mtime, s) ==
    LET fp == Fopen(file) IN
    IF fp = NULL THEN [Err(s, "Failed opening file") EXCEPT !.rc = 1]
    ELSE [ParseDynamicLines(file, ReadLines(fp), 1, mtime, s) EXCEPT !.rc = 0, !.cur = s.cur]

(***************************************************************************)
(* conf_reload_dynamic and conf_parse_config                               *)
(***************************************************************************)
\* The number a name starts with, 0 if it starts with none.
RECURSIVE LeadingNumber(_, _)
LeadingNumber(name, n) ==
    IF name # <<>> /\ IsDigit(Head(name))
    THEN LeadingNumber(Tail(name), 10 * n + (Ord(Head(name)) - Ord("0")))
    ELSE n

\* A sort by leading number first (2 before 10), then by name.
RECURSIVE AlphasortNumeric(_)
AlphasortNumeric(keys) ==
    IF keys = {} THEN <<>>
    ELSE LET Before(a, b) ==
                 LET na == LeadingNumber(DropIns[a].name, 0)
                     nb == LeadingNumber(DropIns[b].name, 0)
                 IN  na < nb \/ (na = nb /\ StrLess(DropIns[a].name, DropIns[b].name))
             k == CHOOSE a \in keys : \A b \in keys \ {a} : Before(a, b)
         IN  <<k>> \o AlphasortNumeric(keys \ {k})

\* alphasort: the names in strcoll() order, which is strcmp() order in the
\* C locale the daemon runs in.
RECURSIVE Alphasort(_)
Alphasort(keys) ==
    IF keys = {} THEN <<>>
    ELSE LET k == CHOOSE a \in keys :
                      \A b \in keys \ {a} : StrLess(DropIns[a].name, DropIns[b].name)
         IN  <<k>> \o Alphasort(keys \ {k})

\* scandir(dir, &e, NULL, alphasort): the entries, sorted.
Scandir == Alphasort({k \in DropKeys : Present(k)})

\* len < 6 || strcmp(&path[len - 5], ".conf")
NotConf(path) ==
    Len(path) < 6 \/ Tail0(path, Len(path) - 5) # <<".", "c", "o", "n", "f">>

\* A pass that marks nothing.
MarkNone(s) == s

\* The mark at the start of the pass.
MarkAll(s) == TtyMark(SvcMarkDynamic(s))

\* A loop body that skips a file whose modification time some registered
\* entry already carries.
ProcessEntryIfChanged(k, s) ==
    IF \E i \in DOMAIN s.svcs : s.svcs[i].mtime = MtimeOf(k) THEN s
    ELSE IF DropIns[k].kind = "dir" \/ NotConf(DropPath(k)) THEN s
    ELSE ParseConfDynamic(DropPath(k), MtimeOf(k), s)

\* The body of the loop over the directory entries, for entry k.
ProcessEntry(k, s) ==
    LET path == DropPath(k) IN
    IF DropIns[k].kind = "dir" THEN s
    ELSE IF DropIns[k].kind = "lnk" /\ fs.dangling
         THEN Warn(s, "Skipping dangling symlink")
    ELSE IF NotConf(path) THEN s
    ELSE ParseConfDynamic(path, MtimeOf(k), s)

RECURSIVE ProcessEntries(_, _, _)
ProcessEntries(e, i, s) ==
    IF i > Len(e) THEN s
    ELSE LET t == ProcessEntry(e[i], s)
         IN  IF t.rc = t.rc THEN ProcessEntries(e, i + 1, t) ELSE t

\* A failed scandir() taken for an empty directory.
ScandirFailedAsEmpty(s) == [s EXCEPT !.rc = 0]

\* What conf_reload_dynamic does after the mark when scandir() fails.
ScandirFailed(s) == [s EXCEPT !.rc = 1]

\* A pass that marks after the files instead of before them.
ConfReloadDynamicMarkLast(s0) ==
    IF ~fs.dir THEN ScandirFailed(MarkAll(s0))
    ELSE [SetHostname(MarkAll(ProcessEntries(Scandir, 1, s0))) EXCEPT !.rc = 0]

ConfReloadDynamic(s0) ==
    LET s == MarkAll(s0) IN
    IF ~fs.dir THEN ScandirFailed(s)
    ELSE [SetHostname(ProcessEntries(Scandir, 1, s)) EXCEPT !.rc = 0]

\* A boot that reconciles the drop-in directory whatever parse_conf returns.
ConfParseConfigAlways(s0) ==
    LET s == ParseConf(FINIT_CONF, [s0 EXCEPT !.hostname = DEFHOST])
        r == ConfReloadDynamic(s)
    IN  [r EXCEPT !.rc = IF s.rc # 0 \/ r.rc # 0 THEN 1 ELSE 0]

\* parse_conf(FINIT_CONF) || conf_reload_dynamic()
ConfParseConfig(s0) ==
    LET s == ParseConf(FINIT_CONF, [s0 EXCEPT !.hostname = DEFHOST]) IN
    IF s.rc # 0 THEN [s EXCEPT !.rc = 1]
    ELSE LET r == ConfReloadDynamic(s) IN [r EXCEPT !.rc = IF r.rc # 0 THEN 1 ELSE 0]

(***************************************************************************)
(* The specification of the reconciliation driver                          *)
(***************************************************************************)
Digits1024 == <<"1", "0", "2", "4">>
Digits4096 == <<"4", "0", "9", "6">>

InitLimits == [r \in Resources |-> [cur |-> Digits1024, max |-> Digits4096]]

FsStates ==
    [conf : BOOLEAN, extra : BOOLEAN, dir : BOOLEAN, dangling : BOOLEAN,
     present : SUBSET Toggled, mtime : [Touched -> 1..MaxMtime]]

NoOp(name) == [name |-> name, arg |-> <<>>]

InitProgram ==
    /\ hostname = NULL /\ network = NULL /\ runparts = NULL /\ sdown = NULL
    /\ console = NULL
    /\ cfglevel = RUNLEVEL
    /\ runlevel = 0
    /\ svcs = <<>> /\ ttys = <<>>
    /\ limits = InitLimits
    /\ op = NoOp("init") /\ ret = 0
    /\ log = <<>> /\ calls = <<>> /\ applied = <<>> /\ trace = <<>> /\ events = <<>>
    /\ streak = 0

Init ==
    /\ InitProgram
    /\ fs \in {f \in FsStates : f.mtime = [k \in Touched |-> 1]}
    /\ os = [getrlimit |-> FALSE, setrlimit |-> FALSE]
    /\ build = [inetd |-> FALSE]
    /\ rl = RlIdle
    /\ cnd = CondIdle
    /\ rd = RdIdle

\* The state an operation leaves, s, becomes the next state.
Commit(s, o) ==
    /\ hostname' = s.hostname /\ network' = s.network /\ runparts' = s.runparts
    /\ sdown' = s.sdown /\ console' = s.console
    /\ cfglevel' = s.cfglevel /\ runlevel' = s.runlevel
    /\ svcs' = s.svcs /\ ttys' = s.ttys
    /\ limits' = s.limits
    /\ op' = o /\ ret' = s.rc
    /\ log' = s.log /\ calls' = s.calls /\ applied' = s.applied /\ trace' = s.trace
    /\ events' = s.events

\* The environment acts: nothing of the program is observed.
Quiet(name) ==
    /\ op' = NoOp(name) /\ ret' = 0
    /\ log' = <<>> /\ calls' = <<>> /\ applied' = <<>> /\ trace' = <<>> /\ events' = <<>>
    /\ streak' = 0

\* The passes counted in streak.
MaxStreak == 2

\* conf_parse_config() at boot.
Boot ==
    /\ op.name = "init"
    /\ Commit(ConfParseConfig(State), NoOp("conf_parse_config"))
    /\ streak' = IF fs.conf THEN 1 ELSE 0
    /\ UNCHANGED <<fs, os, build, units>>

\* conf_reload_dynamic(), on a reload request.
Reload ==
    /\ op.name # "init"
    /\ Commit(ConfReloadDynamic(State), NoOp("conf_reload_dynamic"))
    /\ streak' = IF streak < MaxStreak THEN streak + 1 ELSE streak
    /\ UNCHANGED <<fs, os, build, units>>

\* The caller's sweep of both registries after a reload.
RegistrySweep ==
    /\ op.name = "conf_reload_dynamic"
    /\ svcs' = Sweep(svcs) /\ ttys' = Sweep(ttys)
    /\ Quiet("env")
    /\ UNCHANGED <<globals, limits, fs, os, build, units>>

\* The daemon leaves bootstrap for the configured runlevel.
LeaveBootstrap ==
    /\ op.name # "init" /\ runlevel = 0
    /\ runlevel' = cfglevel
    /\ Quiet("env")
    /\ UNCHANGED <<hostname, network, runparts, sdown, console, cfglevel,
                   registries, limits, fs, os, build, units>>

\* A drop-in file is created or deleted.
EnvToggle ==
    /\ op.name # "init"
    /\ \E k \in Toggled :
         fs' = [fs EXCEPT !.present = IF k \in @ THEN @ \ {k} ELSE @ \cup {k}]
    /\ Quiet("env")
    /\ UNCHANGED <<globals, registries, limits, os, build, units>>

\* A drop-in file is rewritten: its modification time changes.
EnvTouch ==
    /\ op.name # "init"
    /\ \E k \in Touched :
         /\ k \in fs.present
         /\ fs.mtime[k] < MaxMtime
         /\ fs' = [fs EXCEPT !.mtime[k] = @ + 1]
    /\ Quiet("env")
    /\ UNCHANGED <<globals, registries, limits, os, build, units>>

\* The drop-in directory disappears or comes back; the symlink's target too.
EnvDir ==
    /\ op.name # "init"
    /\ \/ fs' = [fs EXCEPT !.dir = ~@]
       \/ fs' = [fs EXCEPT !.dangling = ~@]
    /\ Quiet("env")
    /\ UNCHANGED <<globals, registries, limits, os, build, units>>

Next ==
    \/ Boot
    \/ Reload
    \/ RegistrySweep
    \/ LeaveBootstrap
    \/ EnvToggle
    \/ EnvTouch
    \/ EnvDir

Spec == Init /\ [][Next]_vars

(***************************************************************************)
(* The specification of the runlevel compiler                              *)
(***************************************************************************)
QuietFs ==
    [conf |-> TRUE, extra |-> TRUE, dir |-> TRUE, dangling |-> FALSE,
     present |-> {}, mtime |-> [k \in Touched |-> 1]]

RlCalls ==
    {[pc |-> "call", arg |-> a, junk |-> j, mask |-> 0, reads |-> 0] :
        a \in RlInputs, j \in RlJunk}

RlInit ==
    /\ InitProgram
    /\ fs = QuietFs
    /\ os = [getrlimit |-> FALSE, setrlimit |-> FALSE]
    /\ build = [inetd |-> FALSE]
    /\ rl \in RlCalls
    /\ cnd = CondIdle
    /\ rd = RdIdle

\* conf_parse_runlevels(rl.arg) runs and returns.
RlCall ==
    /\ rl.pc = "call"
    /\ LET r == ConfParseRunlevels(rl.arg, rl.junk)
       IN  rl' = [rl EXCEPT !.pc = "done", !.mask = r.mask, !.reads = r.reads]
    /\ UNCHANGED <<globals, registries, limits, fs, os, build, observed, cnd, rd>>

\* The next call, with another argument.
RlAgain ==
    /\ rl.pc = "done"
    /\ rl' \in RlCalls
    /\ UNCHANGED <<globals, registries, limits, fs, os, build, observed, cnd, rd>>

RlNext ==
    \/ RlCall
    \/ RlAgain

SpecRl == RlInit /\ [][RlNext]_vars

\* C7: conf_parse_runlevels yields {2,3,4} for "[234]", for a null argument
\* and for the empty string, {0} for "[S]" and "[s]", and {2,3,4,5,7,8,9}
\* for "[!016]".
C7_ReferenceValues ==
    rl.pc = "done" =>
        /\ rl.arg = <<"[", "2", "3", "4", "]">> => rl.mask = MaskOf({2, 3, 4})
        /\ rl.arg = NULL => rl.mask = MaskOf({2, 3, 4})
        /\ rl.arg = <<>> => rl.mask = MaskOf({2, 3, 4})
        /\ rl.arg \in {<<"[", "S", "]">>, <<"[", "s", "]">>} => rl.mask = MaskOf({0})
        /\ rl.arg = <<"[", "!", "0", "1", "6", "]">> => rl.mask = MaskOf({2, 3, 4, 5, 7, 8, 9})

\* C8: for every input string conf_parse_runlevels reads no character beyond
\* the string's terminator and returns a mask within bits 0..9.
C8_Totality ==
    (rl.pc = "done" /\ rl.arg # NULL) =>
        /\ rl.reads <= Len(rl.arg)
        /\ rl.mask >= 0 /\ rl.mask <= Pow2(10) - 1

(***************************************************************************)
(* The specification of the rlimit directive                               *)
(***************************************************************************)
\* What follows "rlimit " on the line: directives that are well formed ...
RlimitGood ==
    { <<"s", "o", "f", "t", " ", "n", "o", "f", "i", "l", "e", " ", "5", "1", "2">>,
      <<"s", "o", "f", "t", " ", "n", "o", "f", "i", "l", "e", " ", "0">>,
      <<"h", "a", "r", "d", " ", "n", "o", "f", "i", "l", "e", " ", "4", "2", "9", "4", "9", "6", "7", "2", "9", "6">>,
      <<"h", "a", "r", "d", " ", "n", "o", "f", "i", "l", "e", " ", "i", "n", "f", "i", "n", "i", "t", "y">>,
      <<"s", "o", "f", "t", " ", "n", "o", "f", "i", "l", "e", " ", "i", "n", "f", "i", "n", "i", "t", "y">>,
      <<"s", "o", "f", "t", " ", " ", "n", "o", "f", "i", "l", "e", "\t", "+", "7">>,
      <<"h", "a", "r", "d", " ", "n", "o", "f", "i", "l", "e", " ", "0", "5", "1", "2", " ", "e", "x", "t", "r", "a">>,
      <<"s", "o", "f", "t", " ", "c", "o", "r", "e", " ", "0">>,
      <<"h", "a", "r", "d", " ", "c", "o", "r", "e", " ", "i", "n", "f", "i", "n", "i", "t", "y">> }

\* ... and directives that are not.
RlimitBad ==
    { <<"S", "o", "f", "t", " ", "n", "o", "f", "i", "l", "e", " ", "5", "1", "2">>,
      <<"s", "o", "f", "t", "e", "r", " ", "n", "o", "f", "i", "l", "e", " ", "5", "1", "2">>,
      <<>>,
      <<"s", "o", "f", "t">>,
      <<"s", "o", "f", "t", " ", "f", "i", "l", "e", "s", " ", "5", "1", "2">>,
      <<"s", "o", "f", "t", " ", "N", "O", "F", "I", "L", "E", " ", "5", "1", "2">>,
      <<"s", "o", "f", "t", " ", "n", "o", "f", "i", "l", "e">>,
      <<"s", "o", "f", "t", " ", "n", "o", "f", "i", "l", "e", " ", "-", "1">>,
      <<"s", "o", "f", "t", " ", "n", "o", "f", "i", "l", "e", " ", "1", "2", "x">>,
      <<"s", "o", "f", "t", " ", "n", "o", "f", "i", "l", "e", " ", "4", "2", "9", "4", "9", "6", "7", "2", "9", "7">>,
      <<"s", "o", "f", "t", " ", "n", "o", "f", "i", "l", "e", " ", "I", "n", "f", "i", "n", "i", "t", "y">> }

RlimitFile == <<"/", "e", "t", "c", "/", "f", "i", "n", "i", "t", ".", "d", "/", "r", ".", "c", "o", "n", "f">>
RlimitNextLine == <<"t", "t", "y", " ", "T", "9">>

RlimitInit ==
    /\ InitProgram
    /\ fs = QuietFs
    /\ os = [getrlimit |-> FALSE, setrlimit |-> FALSE]
    /\ build = [inetd |-> FALSE]
    /\ rl = RlIdle
    /\ cnd = CondIdle
    /\ rd = RdIdle

\* A drop-in file of two lines is parsed: an rlimit directive and a tty.
RlimitLine ==
    /\ \E x \in RlimitGood \cup RlimitBad :
         LET lines == ReadLines(Stream(<<<<"r", "l", "i", "m", "i", "t", " ">> \o x, RlimitNextLine>>))
         IN  Commit(ParseDynamicLines(RlimitFile, lines, 1, 1, State),
                    [name |-> "parse_conf_dynamic", arg |-> x])
    /\ streak' = 0
    /\ UNCHANGED <<fs, os, build, units>>

\* getrlimit() or setrlimit() starts or stops failing.
OsFault ==
    /\ \E g, t \in BOOLEAN :
         /\ os' = [getrlimit |-> g, setrlimit |-> t]
         /\ os' # os
    /\ Quiet("env")
    /\ UNCHANGED <<globals, registries, limits, fs, build, units>>

RlimitNext ==
    \/ RlimitLine
    \/ OsFault

SpecRlimit == RlimitInit /\ [][RlimitNext]_vars

\* The directives of RlimitGood, read by hand: the resource, the half and
\* the value each one names.
Digits512 == <<"5", "1", "2">>
Digits2p32 == <<"4", "2", "9", "4", "9", "6", "7", "2", "9", "6">>

RlimitMeaning ==
    { [x |-> <<"s", "o", "f", "t", " ", "n", "o", "f", "i", "l", "e", " ", "5", "1", "2">>, res |-> "RLIMIT_NOFILE", half |-> "cur", v |-> Digits512],
      [x |-> <<"s", "o", "f", "t", " ", "n", "o", "f", "i", "l", "e", " ", "0">>, res |-> "RLIMIT_NOFILE", half |-> "cur", v |-> <<"0">>],
      [x |-> <<"h", "a", "r", "d", " ", "n", "o", "f", "i", "l", "e", " ", "4", "2", "9", "4", "9", "6", "7", "2", "9", "6">>, res |-> "RLIMIT_NOFILE", half |-> "max", v |-> Digits2p32],
      [x |-> <<"h", "a", "r", "d", " ", "n", "o", "f", "i", "l", "e", " ", "i", "n", "f", "i", "n", "i", "t", "y">>, res |-> "RLIMIT_NOFILE", half |-> "max", v |-> RLIM_INFINITY],
      [x |-> <<"s", "o", "f", "t", " ", "n", "o", "f", "i", "l", "e", " ", "i", "n", "f", "i", "n", "i", "t", "y">>, res |-> "RLIMIT_NOFILE", half |-> "cur", v |-> RLIM_INFINITY],
      [x |-> <<"s", "o", "f", "t", " ", " ", "n", "o", "f", "i", "l", "e", "\t", "+", "7">>, res |-> "RLIMIT_NOFILE", half |-> "cur", v |-> <<"7">>],
      [x |-> <<"h", "a", "r", "d", " ", "n", "o", "f", "i", "l", "e", " ", "0", "5", "1", "2", " ", "e", "x", "t", "r", "a">>, res |-> "RLIMIT_NOFILE", half |-> "max", v |-> Digits512],
      [x |-> <<"s", "o", "f", "t", " ", "c", "o", "r", "e", " ", "0">>, res |-> "RLIMIT_CORE", half |-> "cur", v |-> <<"0">>],
      [x |-> <<"h", "a", "r", "d", " ", "c", "o", "r", "e", " ", "i", "n", "f", "i", "n", "i", "t", "y">>, res |-> "RLIMIT_CORE", half |-> "max", v |-> RLIM_INFINITY] }

OtherHalf(half) == IF half = "cur" THEN "max" ELSE "cur"

RlimitStep == op'.name = "parse_conf_dynamic"
Warned(l) == Len(l) = 1 /\ l[1].level = "warning"

\* C9: a successful "soft <name> <v>" sets the soft limit of that resource
\* to v and leaves its hard limit unchanged, "hard <name> <v>" sets the hard
\* limit and leaves the soft one unchanged, and the limits of every other
\* resource are unchanged.
C9_OneHalfOnly ==
    [][ \A d \in RlimitMeaning :
          (RlimitStep /\ op'.arg = d.x /\ log' = <<>>) =>
              /\ limits'[d.res][d.half] = d.v
              /\ limits'[d.res][OtherHalf(d.half)] = limits[d.res][OtherHalf(d.half)]
              /\ \A r \in Resources \ {d.res} : limits'[r] = limits[r] ]_vars

\* After "soft nofile 512": soft = 512 and the previous hard value.
C9_Witness ==
    /\ op = [name |-> "parse_conf_dynamic", arg |-> <<"s", "o", "f", "t", " ", "n", "o", "f", "i", "l", "e", " ", "5", "1", "2">>]
    /\ log = <<>>
    /\ limits["RLIMIT_NOFILE"] = [cur |-> Digits512, max |-> Digits4096]

\* C10: an rlimit directive that fails at any stage (selector, resource
\* name, value, reading or writing the limit) logs a warning and changes no
\* limit of any resource, and the next line of the file is parsed.
C10_FailureContained ==
    [][ RlimitStep =>
          /\ (op'.arg \in RlimitBad \/ os.getrlimit \/ os.setrlimit) =>
                 (Warned(log') /\ limits' = limits)
          /\ log' # <<>> => (Warned(log') /\ limits' = limits)
          /\ \E i \in DOMAIN calls' :
                 /\ calls'[i].fn = "tty_register"
                 /\ calls'[i].at = [file |-> RlimitFile, line |-> 2] ]_vars

\* A value that is no number is refused with a warning, and the tty of the
\* next line is registered.
C10_Witness ==
    /\ op = [name |-> "parse_conf_dynamic", arg |-> <<"s", "o", "f", "t", " ", "n", "o", "f", "i", "l", "e", " ", "1", "2", "x">>]
    /\ Warned(log)
    /\ limits = InitLimits
    /\ \E i \in DOMAIN ttys : ttys[i].id = <<"T", "9">>

(***************************************************************************)
(* Properties of the reconciliation driver                                 *)
(***************************************************************************)
Ids(reg) == {reg[i].id : i \in DOMAIN reg}
CleanIds(reg) == {reg[i].id : i \in {j \in DOMAIN reg : ~reg[j].dirty}}
NoDuplicates(reg) == \A i, j \in DOMAIN reg : reg[i].id = reg[j].id => i = j

DropPaths == {DropPath(k) : k \in DropKeys}

\* The identities a pass registered with the registry function fn.
RegisteredBy(c, fn) == {c[i].arg : i \in {j \in DOMAIN c : c[j].fn = fn}}

\* The registration calls of a pass that come from drop-in files.
DropCalls(c) ==
    {i \in DOMAIN c : c[i].fn \in {"service_register", "tty_register"}
                      /\ c[i].at.file \in DropPaths}

ReloadStep == op'.name = "conf_reload_dynamic"

PassOn(reg, regAfter, registered) ==
    /\ Len(regAfter) >= Len(reg)
    /\ \A i \in DOMAIN reg : regAfter[i].id = reg[i].id
    /\ NoDuplicates(regAfter)
    /\ \A i \in DOMAIN reg :
           IsDynamic(reg[i]) => (regAfter[i].dirty <=> reg[i].id \notin registered)
    /\ \A i \in DOMAIN regAfter \ DOMAIN reg :
           regAfter[i].id \in registered /\ ~regAfter[i].dirty

C2_Idempotent ==
    [][ (streak >= 1 /\ ReloadStep) =>
          /\ Ids(svcs') = Ids(svcs) /\ CleanIds(svcs') = CleanIds(svcs)
          /\ Len(svcs') = Len(svcs) /\ NoDuplicates(svcs')
          /\ Ids(ttys') = Ids(ttys) /\ CleanIds(ttys') = CleanIds(ttys)
          /\ Len(ttys') = Len(ttys) /\ NoDuplicates(ttys') ]_vars

\* Two passes in a row over a directory with both drop-in files.
C2_Witness ==
    /\ streak >= 2 /\ op.name = "conf_reload_dynamic" /\ ret = 0
    /\ fs.present = {"x", "y"}
    /\ {<<"A">>, <<"B">>, <<"A", "2">>} \subseteq CleanIds(svcs)
    /\ <<"T", "1">> \in CleanIds(ttys)

\* C3: the registration calls of a pass come in the byte-wise order of the
\* file names and, within a file, in line order; those of 10-x.conf precede
\* those of 2-y.conf.
C3_ProcessingOrder ==
    \A i, j \in DropCalls(calls) :
        /\ i < j =>
             \/ StrLess(calls[i].at.file, calls[j].at.file)
             \/ calls[i].at.file = calls[j].at.file /\ calls[i].at.line < calls[j].at.line
        /\ (calls[i].at.file = DropPath("x") /\ calls[j].at.file = DropPath("y")) => i < j

\* A pass that registered from 10-x.conf and from 2-y.conf.
C3_Witness ==
    /\ op.name = "conf_reload_dynamic"
    /\ \E i, j \in DropCalls(calls) :
           /\ calls[i].at.file = DropPath("x") /\ calls[i].arg = <<"A">>
           /\ calls[j].at.file = DropPath("y") /\ calls[j].arg = <<"B">>
           /\ i < j

\* C4: when the drop-in directory cannot be listed, conf_reload_dynamic
\* returns non-zero, registers nothing, and leaves every dynamic entry
\* pending-removal.
C4_MissingDirectory ==
    (op.name = "conf_reload_dynamic" /\ ~fs.dir) =>
        /\ ret # 0
        /\ calls = <<>>
        /\ \A i \in DOMAIN svcs : IsDynamic(svcs[i]) => svcs[i].dirty
        /\ \A i \in DOMAIN ttys : IsDynamic(ttys[i]) => ttys[i].dirty

\* A pass without the directory, with entries of an earlier pass around.
C4_Witness ==
    /\ op.name = "conf_reload_dynamic" /\ ~fs.dir /\ ret = 1
    /\ \E i \in DOMAIN svcs : IsDynamic(svcs[i]) /\ svcs[i].dirty
    /\ \E i \in DOMAIN ttys : IsDynamic(ttys[i]) /\ ttys[i].dirty

\* Every line of the primary file and of an included file goes to the static
\* interpreter and after it to the dynamic one; a line of a drop-in file goes
\* to the dynamic interpreter only.
TraceDiscipline(t) ==
    \A j \in DOMAIN t :
        IF t[j].at.file \in DropPaths THEN t[j].interp = "dynamic"
        ELSE /\ t[j].interp = "dynamic" =>
                  \E i \in 1..(j - 1) : t[i] = [interp |-> "static", at |-> t[j].at]
             /\ t[j].interp = "static" =>
                  \E i \in (j + 1)..Len(t) : t[i] = [interp |-> "dynamic", at |-> t[j].at]

\* C5: static directives are boot-only. The two interpreters run as
\* TraceDiscipline says, and a pass of conf_reload_dynamic leaves hostname,
\* network script, run-parts directory, shutdown command and default
\* runlevel unchanged, runs no mknod and includes no file.
C5_StaticIsBootOnly ==
    [][ /\ TraceDiscipline(trace')
        /\ ReloadStep =>
             /\ hostname' = hostname /\ network' = network
             /\ runparts' = runparts /\ sdown' = sdown
             /\ cfglevel' = cfglevel
             /\ \A i \in DOMAIN calls' :
                    calls'[i].fn = "run_interactive" =>
                        MATCH_CMD(calls'[i].arg, <<"m", "o", "d", "p", "r", "o", "b", "e", " ">>)
             /\ \A i \in DOMAIN trace' : trace'[i].at.file \in DropPaths ]_vars

\* A pass over 10-x.conf and 2-y.conf, whose "host evil", "runlevel 9" and
\* "console /dev/c2" lines were dispatched: only the console changed.
C5_Witness ==
    /\ op.name = "conf_reload_dynamic"
    /\ [interp |-> "dynamic", at |-> [file |-> DropPath("x"), line |-> 2]]
           \in {trace[i] : i \in DOMAIN trace}
    /\ hostname = <<"i", "n", "n", "e", "r">> /\ cfglevel = 3 /\ network = <<"i", "f", "u", "p">>
    /\ sdown = <<"h", "a", "l", "t">> /\ runparts = <<"/", "e", "t", "c", "/", "r", "c">>
    /\ console = <<"/", "d", "e", "v", "/", "c", "2">>

\* A reconciliation ran: conf_reload_dynamic was called, or
\* conf_parse_config was and could open the primary file.
PassRan ==
    \/ op.name = "conf_reload_dynamic"
    \/ op.name = "conf_parse_config" /\ fs.conf

\* C6: set_hostname is invoked exactly once per reconciliation, with the
\* hostname current at the end of the pass, on every path through the pass,
\* a missing drop-in directory included.
C6_HostnameAppliedOnce == PassRan => applied = <<hostname>>

(***************************************************************************)
(* The specification of the condition string compiler                      *)
(***************************************************************************)
CondInit ==
    /\ InitProgram
    /\ fs = QuietFs
    /\ os = [getrlimit |-> FALSE, setrlimit |-> FALSE]
    /\ build = [inetd |-> FALSE]
    /\ rl = RlIdle
    /\ cnd \in {[pc |-> "call", arg |-> a, svc |-> v] : a \in CondInputs, v \in FreshSvcs}
    /\ rd = RdIdle

\* conf_parse_cond(svc, cnd.arg) runs and returns.
CondCall ==
    /\ cnd.pc = "call"
    /\ cnd' = [cnd EXCEPT !.pc = "done", !.svc = ConfParseCond(cnd.svc, cnd.arg)]
    /\ UNCHANGED <<globals, registries, limits, fs, os, build, observed, rl, rd>>

\* The same service is declared again, with another condition.
CondAgain ==
    /\ cnd.pc = "done"
    /\ \E a \in CondInputs :
         cnd' = [cnd EXCEPT !.pc = "call", !.arg = a, !.svc.log = <<>>]
    /\ UNCHANGED <<globals, registries, limits, fs, os, build, observed, rl, rd>>

CondNext ==
    \/ CondCall
    \/ CondAgain

SpecCond == CondInit /\ [][CondNext]_vars

\* The condition text of an argument, read by hand: without a leading '!',
\* up to the first '>'.
CondTextOf(arg) ==
    LET body == IF arg # <<>> /\ arg[1] = "!" THEN Tail(arg) ELSE arg
        stops == {k \in DOMAIN body : body[k] = ">"}
    IN  IF stops = {} THEN body
        ELSE SubSeq(body, 1, (CHOOSE k \in stops : \A j \in stops : k <= j) - 1)

\* a is a truncation of b: a non-empty proper prefix of it.
TruncationOf(a, b) == a # <<>> /\ Len(a) < Len(b) /\ a = SubSeq(b, 1, Len(a))

\* A call with a service and a condition text has returned.
CondGiven == cnd.pc = "done" /\ ~cnd.svc.isnull /\ cnd.arg # NULL

\* C11: when the condition text does not fit the field, the field is left
\* empty and a warning is emitted; in every other case the field holds the
\* complete text; the stored condition is never a truncation of the text
\* that was given.
C11_OverflowSafety ==
    CondGiven =>
        LET text == CondTextOf(cnd.arg) IN
        /\ IF Len(text) >= COND_SIZE
           THEN cnd.svc.cond = <<>> /\ Warned(cnd.svc.log)
           ELSE cnd.svc.cond = text /\ cnd.svc.log = <<>>
        /\ ~TruncationOf(cnd.svc.cond, text)

(***************************************************************************)
(* The specification of the inetd directive                                *)
(***************************************************************************)
\* What follows the keyword on the line, kept as it is (no strip_line()).
InetdBodies ==
    { <<"f", "t", "p", "/", "t", "c", "p", " ", "n", "o", "w", "a", "i", "t", " ", "/", "s", "b", "i", "n", "/", "f", "t", "p", "d">>,
      <<" ", " ", "t", "i", "m", "e", "/", "u", "d", "p", " ", "w", "a", "i", "t", " ", "i", "n", "t", "e", "r", "n", "a", "l", " ", "#", " ", "r", "f", "c", "8", "6", "8">>,
      <<>> }

InetdKeywords == {<<"i", "n", "e", "t", "d", " ">>, <<"I", "N", "E", "T", "D", " ">>}

InetdFile == <<"/", "e", "t", "c", "/", "f", "i", "n", "i", "t", ".", "d", "/", "i", ".", "c", "o", "n", "f">>
InetdNextLine == <<"t", "a", "s", "k", " ", "T">>

InetdInit ==
    /\ InitProgram
    /\ fs = QuietFs
    /\ os = [getrlimit |-> FALSE, setrlimit |-> FALSE]
    /\ build \in {[inetd |-> b] : b \in BOOLEAN}
    /\ rl = RlIdle
    /\ cnd = CondIdle
    /\ rd = RdIdle

\* A drop-in file of two lines, with modification time m, is parsed: an
\* inetd directive and a task.
InetdLine ==
    /\ \E k \in InetdKeywords, x \in InetdBodies, m \in 1..MaxMtime :
         LET lines == ReadLines(Stream(<<k \o x, InetdNextLine>>))
         IN  Commit(ParseDynamicLines(InetdFile, lines, 1, m, State),
                    [name |-> "parse_conf_dynamic", arg |-> x, mtime |-> m])
    /\ streak' = 0
    /\ UNCHANGED <<fs, os, build, units>>

InetdNext ==
    \/ InetdLine
    \/ Reload
    \/ RegistrySweep

SpecInetd == InetdInit /\ [][InetdNext]_vars

\* The calls a file's line made, in order.
CallsOfLine(c, n) == SelectSeq(c, LAMBDA e : e.at.line = n)

\* C12: on a build without inetd support an "inetd ..." line logs an error
\* and makes no registration call, so the set of registered services is what
\* the other lines make it; with inetd support the line makes exactly one
\* registration call, with the inetd type, the unparsed remainder of the
\* line and the file's modification time.
C12_Unsupported ==
    [][ op'.name = "parse_conf_dynamic" =>
          IF build.inetd
          THEN /\ CallsOfLine(calls', 1) =
                    << [fn |-> "service_register", type |-> "SVC_TYPE_INETD",
                        arg |-> op'.arg, mtime |-> op'.mtime,
                        at |-> [file |-> InetdFile, line |-> 1]] >>
               /\ log' = <<>>
          ELSE /\ CallsOfLine(calls', 1) = <<>>
               /\ Len(log') = 1 /\ log'[1].level = "error"
               /\ Ids(svcs') = Ids(svcs) \cup {<<"T">>}
               /\ \A i \in DOMAIN svcs' : svcs'[i].type # "SVC_TYPE_INETD" ]_vars

\* On a build without inetd support, an inetd line was refused while the
\* task of the next line is registered.
C12_Witness ==
    /\ ~build.inetd
    /\ op.name = "parse_conf_dynamic" /\ op.arg = <<"f", "t", "p", "/", "t", "c", "p", " ", "n", "o", "w", "a", "i", "t", " ", "/", "s", "b", "i", "n", "/", "f", "t", "p", "d">>
    /\ Len(log) = 1 /\ log[1].level = "error"
    /\ Ids(svcs) = {<<"T">>}

(***************************************************************************)
(* The directory filter                                                    *)
(***************************************************************************)
\* The entries the filter is said to let through: a regular file, or a
\* symlink that resolves to one (the target of 3-z.conf is a regular file),
\* with a name that ends in ".conf".
Eligible(k) ==
    /\ Present(k)
    /\ \/ DropIns[k].kind = "reg"
       \/ DropIns[k].kind = "lnk" /\ ~fs.dangling
    /\ Len(DropIns[k].name) >= 5
    /\ Tail0(DropIns[k].name, Len(DropIns[k].name) - 5) = <<".", "c", "o", "n", "f">>

\* A line of the entry was dispatched in the latest operation.
Parsed(k) == \E i \in DOMAIN trace : trace[i].at.file = DropPath(k)

\* C13: in a pass an entry is parsed if and only if it is a regular file, or
\* a symlink resolving to one, whose name ends in ".conf" (and it can be
\* opened); directories, other non-regular entries and entries without the
\* suffix are never parsed; a dangling symlink is logged and skipped.
C13_DirectoryFilter ==
    (op.name = "conf_reload_dynamic" /\ ret = 0) =>
        /\ \A k \in DropKeys :
               /\ Parsed(k) => Eligible(k)
               /\ (Eligible(k) /\ DropIns[k].opens) => Parsed(k)
        /\ fs.dangling =>
               \E i \in DOMAIN log : log[i] = [level |-> "warning",
                                               msg |-> "Skipping dangling symlink"]

(***************************************************************************)
(* The protocol of one pass                                                *)
(***************************************************************************)
FailedOpening == [level |-> "error", msg |-> "Failed opening file"]
InLog(l, m) == \E i \in DOMAIN l : l[i] = m

\* Both registries were marked, and before the first registry call.
MarkedFirst(ev) ==
    /\ \E i \in DOMAIN ev : ev[i] = [fn |-> "svc_mark_dynamic", calls |-> 0]
    /\ \E i \in DOMAIN ev : ev[i] = [fn |-> "tty_mark", calls |-> 0]
    /\ \A i \in DOMAIN ev : ev[i].fn \in {"svc_mark_dynamic", "tty_mark"} => ev[i].calls = 0

\* 4-u.conf cannot be opened: that is logged, and 5-p.conf, which comes
\* after it, is processed all the same.
OpenFailureSkipped(l, c) ==
    /\ InLog(l, FailedOpening)
    /\ \E i \in DOMAIN c : c[i].at.file = DropPath("p")

RdInit ==
    /\ InitProgram
    /\ fs = QuietFs
    /\ os = [getrlimit |-> FALSE, setrlimit |-> FALSE]
    /\ build = [inetd |-> FALSE]
    /\ rl = RlIdle
    /\ cnd = CondIdle
    /\ rd \in RdCalls

RdOp == [name |-> "parse_conf_dynamic", arg |-> RdPath(rd.file)]

\* fp = fopen(file, "r"); if (!fp) { _pe(...); return 1; }
RdOpen ==
    /\ rd.pc = "call"
    /\ IF RdFiles[rd.file].opens
       THEN /\ rd' = [rd EXCEPT !.pc = "loop"]
            /\ Commit([State EXCEPT !.rc = 0], RdOp)
       ELSE /\ rd' = [rd EXCEPT !.pc = "done"]
            /\ Commit([Err(State, "Failed opening file") EXCEPT !.rc = 1], RdOp)
    /\ streak' = 0
    /\ UNCHANGED <<fs, os, build, rl, cnd>>

\* while (!feof(fp)) ... fclose(fp); return 0;
RdClose ==
    /\ rd.pc = "loop" /\ rd.eof
    /\ rd' = [rd EXCEPT !.pc = "done"]
    /\ Commit([Ongoing EXCEPT !.rc = 0], RdOp)
    /\ streak' = 0
    /\ UNCHANGED <<fs, os, build, rl, cnd>>

\* One iteration in which fgets() returns NULL: at the end of the input
\* the end-of-file indicator is set, on a read error the error indicator;
\* then "continue".
RdNoLine ==
    /\ rd.pc = "loop" /\ ~rd.eof
    /\ LET failing == RdFiles[rd.file].failat >= 0 /\ rd.reads >= RdFiles[rd.file].failat
       IN  /\ failing \/ rd.rest = <<>>
           /\ rd' = [rd EXCEPT !.tick = 1 - @,
                               !.err = IF failing THEN TRUE ELSE @,
                               !.eof = IF failing THEN @ ELSE TRUE]
    /\ UNCHANGED <<globals, registries, limits, fs, os, build, observed, rl, cnd>>

\* One iteration in which fgets() returns a line: chomp, tabstospaces,
\* parse_dynamic(line, mtime).
RdLine ==
    /\ rd.pc = "loop" /\ ~rd.eof
    /\ ~(RdFiles[rd.file].failat >= 0 /\ rd.reads >= RdFiles[rd.file].failat)
    /\ rd.rest # <<>>
    /\ LET n == FgetsLen(rd.rest, LINE_SIZE, 0)
           line == TabsToSpaces(Chomp(SubSeq(rd.rest, 1, n)))
           at == [file |-> RdPath(rd.file), line |-> rd.reads + 1]
       IN  /\ rd' = [rd EXCEPT !.tick = 1 - @, !.reads = @ + 1,
                               !.rest = Tail0(@, n),
                               !.eof = HitsEnd(rd.rest, n),
                               !.out = Append(@, line)]
           /\ Commit(DropInLine(line, 1, [Ongoing EXCEPT !.cur = at]), RdOp)
    /\ streak' = 0
    /\ UNCHANGED <<fs, os, build, rl, cnd>>

\* The next file is parsed.
RdAgain ==
    /\ rd.pc = "done"
    /\ rd' \in RdCalls
    /\ Quiet("env")
    /\ UNCHANGED <<globals, registries, limits, fs, os, build, rl, cnd>>

RdNext ==
    \/ RdOpen
    \/ RdClose
    \/ RdNoLine
    \/ RdLine
    \/ RdAgain

SpecRead == RdInit /\ [][RdNext]_vars

\* The loop is a running program: it takes its next step.
SpecReadFair == SpecRead /\ WF_vars(RdNext)

\* C15: the read loop terminates for every file that could be opened, one
\* whose read fails with an error other than end of input included: a call
\* that has started comes to its end.
C15_Termination == (rd.pc = "call") ~> (rd.pc = "done")

\* The physical lines of a file: its bytes cut at every newline.
RECURSIVE PhysicalLines(_, _)
PhysicalLines(stream, acc) ==
    IF stream = <<>> THEN (IF acc = <<>> THEN <<>> ELSE <<acc>>)
    ELSE IF Head(stream) = "\n" THEN <<acc>> \o PhysicalLines(Tail(stream), <<>>)
    ELSE PhysicalLines(Tail(stream), Append(acc, Head(stream)))

\* The prefix of a physical line that fits the line buffer.
FitsBuffer(l) == IF Len(l) > LINE_SIZE - 1 THEN SubSeq(l, 1, LINE_SIZE - 1) ELSE l

\* A file that opens and reads to its end has been parsed.
ReadToEnd == rd.pc = "done" /\ RdFiles[rd.file].opens /\ RdFiles[rd.file].failat < 0

\* C16: over-long lines are truncated, not split: every physical line gives
\* exactly one dispatched line, its prefix that fits the line buffer, and
\* the remainder of an over-long line is never dispatched as a line of its
\* own.
C16_TruncatedNotSplit ==
    ReadToEnd =>
        LET phys == PhysicalLines(RdFiles[rd.file].stream, <<>>)
        IN  rd.out = [i \in DOMAIN phys |-> TabsToSpaces(FitsBuffer(phys[i]))]

(***************************************************************************)
(* The specification of the static directives                              *)
(***************************************************************************)
\* The include directives tried: absolute paths of files that exist when
\* fs.extra holds, a path that is not absolute, and a file that never exists.
IncludeLines ==
    { <<"i", "n", "c", "l", "u", "d", "e", " ", "/", "e", "t", "c", "/", "e", "x", "t", "r", "a", ".", "c", "o", "n", "f">>,
      <<"I", "N", "C", "L", "U", "D", "E", " ", " ", " ", "/", "e", "t", "c", "/", "e", "x", "t", "r", "a", ".", "c", "o", "n", "f", "#", "x">>,
      <<"i", "n", "c", "l", "u", "d", "e", " ", "/", "e", "t", "c", "/", "o", "u", "t", "e", "r", ".", "c", "o", "n", "f">>,
      <<"i", "n", "c", "l", "u", "d", "e", " ", "e", "t", "c", "/", "e", "x", "t", "r", "a", ".", "c", "o", "n", "f">>,
      <<"i", "n", "c", "l", "u", "d", "e", " ", "/", "e", "t", "c", "/", "n", "o", "n", "e", ".", "c", "o", "n", "f">>,
      <<"i", "n", "c", "l", "u", "d", "e", " ", "n", "o", "n", "e", ".", "c", "o", "n", "f">> }

\* The tokens of the runlevel directives tried.
RunlevelTokens ==
    { <<"1">>, <<"3">>, <<"5">>, <<"7">>, <<"9">>, <<" ", "4">>, <<"+", "8">>, <<"7", "#", "c">>, <<"6">>, <<"0", "6">>,
      <<"0">>, <<"1", "0">>, <<"-", "3">>, <<"x">>, <<>>, <<"5", " ">>, <<"3", "x">>,
      <<"9", "9", "9", "9", "9", "9", "9", "9", "9", "9", "9", "9", "9", "9", "9", "9", "9", "9", "9", "9">> }

RunlevelLines == {<<"r", "u", "n", "l", "e", "v", "e", "l", " ">> \o t : t \in RunlevelTokens}

StaticDirectives == IncludeLines \cup RunlevelLines

\* The lines of a primary file holding directive d.
StaticFile(d) == << <<"h", "o", "s", "t", " ", "f", "i", "r", "s", "t">>, d, <<"s", "h", "u", "t", "d", "o", "w", "n", " ", "l", "a", "s", "t">> >>

StaticInit ==
    /\ InitProgram
    /\ fs \in {[QuietFs EXCEPT !.extra = b] : b \in BOOLEAN}
    /\ os = [getrlimit |-> FALSE, setrlimit |-> FALSE]
    /\ build = [inetd |-> FALSE]
    /\ rl = RlIdle
    /\ cnd = CondIdle
    /\ rd = RdIdle

\* A primary file of three lines is parsed, directive d in the middle.
StaticLine ==
    /\ \E d \in StaticDirectives :
         LET lines == ReadLines(Stream(StaticFile(d)))
         IN  Commit([ParseConfLines(FINIT_CONF, lines, 1, State) EXCEPT !.rc = 0],
                    [name |-> "parse_conf", arg |-> d])
    /\ streak' = 0
    /\ UNCHANGED <<fs, os, build, units>>

\* The files to include appear or disappear.
EnvExtra ==
    /\ fs' = [fs EXCEPT !.extra = ~@]
    /\ Quiet("env")
    /\ UNCHANGED <<globals, registries, limits, os, build, units>>

StaticNext ==
    \/ StaticLine
    \/ EnvExtra

SpecStatic == StaticInit /\ [][StaticNext]_vars

\* The include directives read by hand: whether the path is absolute and
\* which file it names.
IncludeMeaning ==
    { [line |-> <<"i", "n", "c", "l", "u", "d", "e", " ", "/", "e", "t", "c", "/", "e", "x", "t", "r", "a", ".", "c", "o", "n", "f">>, path |-> <<"/", "e", "t", "c", "/", "e", "x", "t", "r", "a", ".", "c", "o", "n", "f">>, absolute |-> TRUE, target |-> "extra"],
      [line |-> <<"I", "N", "C", "L", "U", "D", "E", " ", " ", " ", "/", "e", "t", "c", "/", "e", "x", "t", "r", "a", ".", "c", "o", "n", "f", "#", "x">>, path |-> <<"/", "e", "t", "c", "/", "e", "x", "t", "r", "a", ".", "c", "o", "n", "f">>, absolute |-> TRUE, target |-> "extra"],
      [line |-> <<"i", "n", "c", "l", "u", "d", "e", " ", "/", "e", "t", "c", "/", "o", "u", "t", "e", "r", ".", "c", "o", "n", "f">>, path |-> <<"/", "e", "t", "c", "/", "o", "u", "t", "e", "r", ".", "c", "o", "n", "f">>, absolute |-> TRUE, target |-> "outer"],
      [line |-> <<"i", "n", "c", "l", "u", "d", "e", " ", "e", "t", "c", "/", "e", "x", "t", "r", "a", ".", "c", "o", "n", "f">>, path |-> <<"e", "t", "c", "/", "e", "x", "t", "r", "a", ".", "c", "o", "n", "f">>, absolute |-> FALSE, target |-> "extra"],
      [line |-> <<"i", "n", "c", "l", "u", "d", "e", " ", "/", "e", "t", "c", "/", "n", "o", "n", "e", ".", "c", "o", "n", "f">>, path |-> <<"/", "e", "t", "c", "/", "n", "o", "n", "e", ".", "c", "o", "n", "f">>, absolute |-> TRUE, target |-> "none"],
      [line |-> <<"i", "n", "c", "l", "u", "d", "e", " ", "n", "o", "n", "e", ".", "c", "o", "n", "f">>, path |-> <<"n", "o", "n", "e", ".", "c", "o", "n", "f">>, absolute |-> FALSE, target |-> "none"] }

\* The lines in depth-first file order, when the include takes effect.
At(f, n) == [file |-> f, line |-> n]
DepthFirst(c) ==
    IF c.target = "outer"
    THEN << At(FINIT_CONF, 1), At(FINIT_CONF, 2),
            At(c.path, 1), At(c.path, 2),
            At(<<"/", "e", "t", "c", "/", "e", "x", "t", "r", "a", ".", "c", "o", "n", "f">>, 1), At(<<"/", "e", "t", "c", "/", "e", "x", "t", "r", "a", ".", "c", "o", "n", "f">>, 2),
            At(c.path, 3), At(FINIT_CONF, 3) >>
    ELSE << At(FINIT_CONF, 1), At(FINIT_CONF, 2),
            At(c.path, 1), At(c.path, 2), At(FINIT_CONF, 3) >>

\* The lines an interpreter was given, in order.
GivenTo(interp, t) ==
    LET sel == SelectSeq(t, LAMBDA e : e.interp = interp)
    IN  [i \in DOMAIN sel |-> sel[i].at]

\* The places of trace t where a line of file f was handled.
PlacesOf(f, t) == {i \in DOMAIN t : t[i].at.file = f}

IncludeTakesEffect(c) ==
    /\ log = <<>>
    /\ GivenTo("static", trace) = DepthFirst(c)
    \* the included file is parsed between the two interpreters' turns at
    \* the include line, both interpreters at each of its lines
    /\ \A i \in PlacesOf(c.path, trace) : 3 < i /\ i < Len(trace) - 2
    /\ \A i \in DOMAIN trace :
         ( /\ trace[i].interp = "static"
           /\ trace[i].at # At(FINIT_CONF, 2)
           /\ ~(c.target = "outer" /\ trace[i].at = At(c.path, 2)) )
            => i < Len(trace) /\ trace[i + 1] = [interp |-> "dynamic", at |-> trace[i].at]
    /\ <<"E">> \in Ids(svcs)
    \* the last directive in that order decides
    /\ hostname = <<"i", "n", "n", "e", "r">>
    /\ c.target = "outer" => network = <<"l", "a", "t", "e">>
    /\ sdown = <<"l", "a", "s", "t">>

IncludeRefused ==
    /\ Len(log) = 1 /\ log[1].level = "error"
    /\ GivenTo("static", trace) = << At(FINIT_CONF, 1), At(FINIT_CONF, 2), At(FINIT_CONF, 3) >>
    /\ GivenTo("dynamic", trace) = GivenTo("static", trace)
    /\ calls = <<>>
    /\ hostname = <<"f", "i", "r", "s", "t">>
    /\ sdown = <<"l", "a", "s", "t">>

\* C17: an include line takes effect only if its path is absolute and the
\* file exists, otherwise an error is logged and nothing is parsed; on
\* success the included file is parsed completely, both interpreters at each
\* line and its own includes followed, before the next line of the including
\* file, so that the last directive in depth-first order decides a setting.
C17_Include ==
    \A c \in IncludeMeaning :
        op.name = "parse_conf" /\ op.arg = c.line =>
            IF c.absolute /\ c.target # "none" /\ fs.extra
            THEN IncludeTakesEffect(c)
            ELSE IncludeRefused

\* The tokens that name no runlevel of 1..9, or name the excluded one.
FallbackTokens ==
    { <<"6">>, <<"0", "6">>, <<"0">>, <<"1", "0">>, <<"-", "3">>, <<"x">>, <<>>, <<"5", " ">>, <<"3", "x">>,
      <<"9", "9", "9", "9", "9", "9", "9", "9", "9", "9", "9", "9", "9", "9", "9", "9", "9", "9", "9", "9">> }

C19_ConditionalOnPrimary ==
    op.name = "conf_parse_config" =>
        IF fs.conf
        THEN /\ Len(events) = 2
             /\ events[1].fn = "svc_mark_dynamic" /\ events[2].fn = "tty_mark"
        ELSE /\ ret # 0
             /\ events = <<>>
             /\ trace = <<>>
             /\ calls = <<>>
             /\ applied = <<>>
             /\ svcs = <<>> /\ ttys = <<>>

\* Boot without a primary file while the drop-in directory holds both
\* files: non-zero, and nothing was read, registered or applied.
C19_Witness ==
    /\ op.name = "conf_parse_config"
    /\ ~fs.conf /\ fs.dir /\ fs.present = Toggled
    /\ ret = 1
    /\ events = <<>> /\ calls = <<>> /\ applied = <<>>

\* The runlevel a character names, read by hand: a digit names itself, S and
\* s name 0, any other character names none.
LevelTable ==
    ("0" :> 0) @@ ("1" :> 1) @@ ("2" :> 2) @@ ("3" :> 3) @@ ("4" :> 4) @@
    ("5" :> 5) @@ ("6" :> 6) @@ ("7" :> 7) @@ ("8" :> 8) @@ ("9" :> 9) @@
    ("S" :> 0) @@ ("s" :> 0)

LevelsIn(str) == {LevelTable[str[i]] : i \in {j \in DOMAIN str : str[j] \in DOMAIN LevelTable}}

\* What lies between the first character of str and the first ']' after it.
Scanned(str) ==
    LET rest == Tail(str)
        ends == {i \in DOMAIN rest : rest[i] = "]"}
        stop == IF ends = {} THEN Len(rest) + 1
                ELSE CHOOSE i \in ends : \A j \in ends : i <= j
    IN  SubSeq(rest, 1, stop - 1)

\* The place of the last '!' of seg, 0 if it has none.
LastBang(seg) ==
    LET bangs == {i \in DOMAIN seg : seg[i] = "!"}
    IN  IF bangs = {} THEN 0 ELSE CHOOSE i \in bangs : \A j \in bangs : j <= i

\* C20: conf_parse_runlevels never inspects the first character of its
\* argument and stops at the first ']' or at the terminator; without a '!'
\* the mask holds the levels named in between; a '!' at any position resets
\* the mask to bits 1..9 and the levels named after it are cleared, so that
\* what precedes a '!' has no influence and bit 0 is never set once a '!'
\* has been seen.
C20_ScanShape ==
    (rl.pc = "done" /\ rl.arg # NULL /\ rl.arg # <<>>) =>
        LET seg == Scanned(rl.arg)
            bang == LastBang(seg)
        IN  /\ \A c \in RlAlphabet :
                 ConfParseRunlevels(<<c>> \o Tail(rl.arg), rl.junk).mask = rl.mask
            /\ rl.reads <= Len(seg) + 1
            /\ IF bang = 0
               THEN rl.mask = MaskOf(LevelsIn(seg))
               ELSE /\ rl.mask = MaskOf((1..9) \ LevelsIn(SubSeq(seg, bang + 1, Len(seg))))
                    /\ ~HasBit(rl.mask, 0)

\* "[2!3S": the 2 before the '!' has no influence, 3 is cleared, bit 0 is
\* not set.
C20_Witness ==
    /\ rl.pc = "done"
    /\ rl.arg = <<"[", "2", "!", "3", "S">>
    /\ rl.mask = MaskOf({1, 2, 4, 5, 6, 7, 8, 9})

====
